---- MODULE Spec2Model ----
(***************************************************************************)
(* Model of the Ducky terminal shell (src/src/main.rs):                    *)
(*   - App, the navigation state machine (new/next/previous/open_selected/ *)
(*     back_to_main) and the event loop run_app that drives it;            *)
(*   - ui / draw_main_menu, the renderer, which on the Main screen asks    *)
(*     ascii_art_cached for the banner;                                    *)
(*   - ascii_art_cached and the process-wide ASCII_CACHE behind a Mutex,   *)
(*     stepped per thread so that concurrent calls interleave.             *)
(* Strings are sequences of character tokens; a character token is a       *)
(* string naming one char ("LF" is the newline, "CR" the carriage return,  *)
(* "e_acute" a two-byte UTF-8 char, "xFF" a byte that is not valid UTF-8,  *)
(* "U+FFFD" the replacement character).                                    *)
(***************************************************************************)
EXTENDS Integers, Sequences, FiniteSets, TLC

VARIABLES
    app,          \* struct App: [menu_items, selected, screen]
    pc,           \* position of run_app: "draw" | "poll" | "read" | "done"
    res,          \* what run_app returned: "Running" | "Ok" | "Err"
    event,        \* the event the last event::read() returned (NoEvent before)
    frame,        \* the visual tree the last ui() call built (NoFrame before)
    frameNav,     \* the <<screen, selected>> that tree was built from
    scen,         \* monitor: how much of Scenario the inputs so far have matched
    cache,        \* ASCII_CACHE: the HashMap, a function on the keys present
    mutex,        \* the Mutex around it: the thread holding it, or NoThread
    tpc,          \* per thread: position inside ascii_art_cached
    tkey,         \* per thread: the key of its current call
    tfound,       \* per thread: what the lookup found ({} = None, {v} = Some(v))
    tlines,       \* per thread: ascii_lines of its current call
    tout,         \* per thread: what Command::output() gave its call (NoOutcome outside)
    calls,        \* calls of ascii_art_cached started so far
    figletCalls,  \* history: per key, how often figlet was spawned
    writes,       \* history: per key, how often insert stored it
    stored,       \* history: per key, the values ever stored
    returned,     \* history: per key, the values ever returned
    start,        \* repetition: the selected index it started from
    steps,        \* repetition: how many times op was applied
    op,           \* repetition: "next" | "previous" | "none"
    mpc,          \* position of main
    term,         \* the terminal: [raw, alt, mouse] modes that are on
    attempted,    \* history: the restore operations main has attempted
    exitCode      \* the process exit code (-1 while it runs)

vars == <<app, pc, res, event, frame, frameNav, scen, cache, mutex, tpc, tkey,
          tfound, tlines, calls, figletCalls, writes, stored, returned,
          start, steps, op, tout, mpc, term, attempted, exitCode>>

navVars   == <<app, pc, res, event, frame, frameNav, scen>>
thrVars   == <<mutex, tpc, tkey, tfound, tlines, tout, calls, returned>>
cycleVars == <<start, steps, op>>
mainVars  == <<mpc, term, attempted, exitCode>>

-----------------------------------------------------------------------------
(* Bounds *)

NumThreads == 2
MaxCalls == 3
MaxEntries == 5
MaxTextLen == 3

-----------------------------------------------------------------------------
(* Strings *)

\* str::len(): the length in bytes of the UTF-8 encoding.
CharLen(c) == IF c = "e_acute" \/ c = "U+FFFD" THEN (IF c = "U+FFFD" THEN 3 ELSE 2) ELSE 1

RECURSIVE StrLen(_)
StrLen(s) == IF s = <<>> THEN 0 ELSE CharLen(Head(s)) + StrLen(Tail(s))

\* str::repeat(n)
RECURSIVE Repeat(_, _)
Repeat(s, n) == IF n <= 0 THEN <<>> ELSE s \o Repeat(s, n - 1)

\* String::from_utf8_lossy: invalid bytes become U+FFFD, the rest is kept.
from_utf8_lossy(bytes) ==
    [i \in 1..Len(bytes) |-> IF bytes[i] = "xFF" THEN "U+FFFD" ELSE bytes[i]]

\* One line without its terminator: a trailing CR goes with the LF.
StripCR(l) ==
    IF l # <<>> /\ l[Len(l)] = "CR" THEN SubSeq(l, 1, Len(l) - 1) ELSE l

\* The pieces of s between LFs (an LF-terminated piece has its CR stripped).
RECURSIVE SplitLF(_, _)
SplitLF(s, cur) ==
    IF s = <<>> THEN (IF cur = <<>> THEN <<>> ELSE <<cur>>)
    ELSE IF Head(s) = "LF" THEN <<StripCR(cur)>> \o SplitLF(Tail(s), <<>>)
    ELSE SplitLF(Tail(s), Append(cur, Head(s)))

\* str::lines(): split at LF or CR LF; a final empty piece is not a line.
Lines(s) == SplitLF(s, <<>>)

-----------------------------------------------------------------------------
(* The banner render and the cache *)

\* Span::styled(line, Style::default().fg(colour)) of every line.
StyledLines(ls, colour) == [i \in 1..Len(ls) |-> [text |-> ls[i], fg |-> colour]]

\* The Ok(out) if out.status.success() arm.
FigletLines(stdout, colour) == StyledLines(Lines(from_utf8_lossy(stdout)), colour)

\* The fallback arm: the format! string, then lines().
FallbackString(text) ==
    <<"+">> \o Repeat(<<"-">>, StrLen(text) + 2) \o <<"+", "LF">>
    \o <<"|", " ">> \o text \o <<" ", "|", "LF">>
    \o <<"+">> \o Repeat(<<"-">>, StrLen(text) + 2) \o <<"+">>

FallbackLines(text, colour) == StyledLines(Lines(FallbackString(text)), colour)

\* What Command::output() can give: the spawn fails, or the process exits
\* with a status and a standard output.
FigletStdouts == { <<"#", "#", "LF", "#", " ", "LF">>, <<"#", "LF">> }

FigletOutcomes ==
    {[spawned |-> FALSE, success |-> FALSE, stdout |-> <<>>]}
    \cup {[spawned |-> TRUE, success |-> FALSE, stdout |-> <<"#", "LF">>]}
    \cup {[spawned |-> TRUE, success |-> TRUE, stdout |-> s] : s \in FigletStdouts}

\* No figlet has been spawned for the call yet.
NoOutcome == [spawned |-> FALSE, success |-> FALSE, stdout |-> <<"none">>]

\* Variant of the match that takes the output of any figlet that ran.
AsciiLines_ignore_status(key, o) ==
    IF o.spawned THEN FigletLines(o.stdout, key[3])
    ELSE FallbackLines(key[1], key[3])

\* let ascii_lines = match output { ... }
AsciiLines(key, o) ==
    IF o.spawned /\ o.success THEN FigletLines(o.stdout, key[3])
    ELSE FallbackLines(key[1], key[3])

\* The key draw_main_menu asks for.
Ducky == <<"D", "u", "c", "k", "y">>
DuckyKey == <<Ducky, "alligator", "Red">>

\* The keys the threads call ascii_art_cached with.
Keys == { DuckyKey, <<Ducky, "alligator", "Blue">>, <<<<"a", "LF", "b">>, "standard", "Red">> }

\* The keys a single call is rendered with: every text of up to MaxTextLen
\* characters over a letter, a line feed and a two-byte letter.
RenderTexts == UNION {[1..n -> {"a", "LF", "e_acute"}] : n \in 0..MaxTextLen}
RenderKeys == {<<x, "standard", c>> : x \in RenderTexts, c \in {"Red", "Blue"}}

\* The match of ascii_art_cached, for each key and each outcome of figlet.
AsciiTable ==
    [k \in Keys \cup RenderKeys |-> [o \in FigletOutcomes |-> AsciiLines(k, o)]]

\* Variant of the lookup that never finds the key.
CacheGet_miss(c, key) == {}

\* HashMap::get: {} is None, {v} is Some(v).
CacheGet(c, key) == IF key \in DOMAIN c THEN {c[key]} ELSE {}

\* Variant of the insert that stores nothing.
CacheInsert_dropped(c, key, v) == c

\* HashMap::insert: the value under key is set, replacing an earlier one.
CacheInsert(c, key, v) ==
    [k \in DOMAIN c \cup {key} |-> IF k = key THEN v ELSE c[k]]

\* Variant of ascii_art_cached that renders and stores on every call.
ascii_art_cached_uncached(c, key, o) ==
    LET ls == AsciiLines(key, o) IN
    [cache |-> CacheInsert(c, key, ls), lines |-> ls, invoked |-> TRUE]

\* ascii_art_cached run with no other thread between its steps: the lookup,
\* and on a miss the render under outcome o and the insert.
ascii_art_cached(c, key, o) ==
    LET found == CacheGet(c, key) IN
    IF found # {}
    THEN [cache |-> c, lines |-> CHOOSE v \in found : TRUE, invoked |-> FALSE]
    ELSE LET ls == AsciiLines(key, o) IN
         [cache |-> CacheInsert(c, key, ls), lines |-> ls, invoked |-> TRUE]

-----------------------------------------------------------------------------
(* App *)

\* Variant of the menu with a fifth entry.
MenuItems_five ==
    <<"TODO list", "Calendar", "Obsidian", "Working out Pad", "Configuration">>

MenuItems == <<"TODO list", "Calendar", "Obsidian", "Working out Pad">>

App_new == [menu_items |-> MenuItems, selected |-> 0, screen |-> "Main"]

\* Variant of next that forgets the wrap (selected + 1 without the modulo).
next_nowrap(a) == [a EXCEPT !.selected = a.selected + 1]

next(a) == [a EXCEPT !.selected = (a.selected + 1) % Len(a.menu_items)]

\* Variant of previous that stays at 0 instead of wrapping to the last entry.
previous_nowrap(a) ==
    IF a.selected = 0 THEN a ELSE [a EXCEPT !.selected = a.selected - 1]

previous(a) ==
    IF a.selected = 0
    THEN [a EXCEPT !.selected = Len(a.menu_items) - 1]
    ELSE [a EXCEPT !.selected = a.selected - 1]

\* Variant of open_selected whose arms are shifted by one entry.
open_selected_shifted(a) ==
    [a EXCEPT !.screen =
        CASE a.selected = 0 -> "Calendar"
          [] a.selected = 1 -> "Obsidian"
          [] a.selected = 2 -> "WorkingOutPad"
          [] a.selected = 3 -> "Configuration"
          [] OTHER -> "Main"]

open_selected(a) ==
    [a EXCEPT !.screen =
        CASE a.selected = 0 -> "TodoList"
          [] a.selected = 1 -> "Calendar"
          [] a.selected = 2 -> "Obsidian"
          [] a.selected = 3 -> "WorkingOutPad"
          [] a.selected = 4 -> "Configuration"
          [] OTHER -> "Main"]

\* Variant of back_to_main that also resets the selection.
back_to_main_reset(a) == [a EXCEPT !.screen = "Main", !.selected = 0]

back_to_main(a) == [a EXCEPT !.screen = "Main"]

-----------------------------------------------------------------------------
(* Events and the match of run_app *)

Key(code) == [type |-> "Key", code |-> code]
Other(type) == [type |-> type, code |-> "-"]

KeyCodes == {"Char_q", "Esc", "Down", "Char_j", "Up", "Char_k", "Enter",
             "Char_h", "Char_x", "Tab"}

Events == {Key(c) : c \in KeyCodes}
          \cup {Other(t) : t \in {"Mouse", "Resize", "FocusGained", "FocusLost", "Paste"}}

NoEvent == Other("None")

\* Variant of the match whose quit arm lost its Screen::Main pattern.
MatchKey_quit_anywhere(a, code) ==
    IF code \in {"Char_q", "Esc"} THEN [app |-> a, quit |-> TRUE]
    ELSE IF a.screen = "Main" /\ code \in {"Down", "Char_j"} THEN [app |-> next(a), quit |-> FALSE]
    ELSE IF a.screen = "Main" /\ code \in {"Up", "Char_k"} THEN [app |-> previous(a), quit |-> FALSE]
    ELSE IF a.screen = "Main" /\ code = "Enter" THEN [app |-> open_selected(a), quit |-> FALSE]
    ELSE IF code = "Char_h" THEN [app |-> back_to_main(a), quit |-> FALSE]
    ELSE [app |-> a, quit |-> FALSE]

\* Variant of the match whose navigation arms lost their Screen::Main pattern.
MatchKey_nav_anywhere(a, code) ==
    IF a.screen = "Main" /\ code \in {"Char_q", "Esc"} THEN [app |-> a, quit |-> TRUE]
    ELSE IF code \in {"Down", "Char_j"} THEN [app |-> next(a), quit |-> FALSE]
    ELSE IF code \in {"Up", "Char_k"} THEN [app |-> previous(a), quit |-> FALSE]
    ELSE IF a.screen = "Main" /\ code = "Enter" THEN [app |-> open_selected(a), quit |-> FALSE]
    ELSE IF code \in {"Esc", "Char_q"} /\ a.screen # "Main" THEN [app |-> back_to_main(a), quit |-> FALSE]
    ELSE IF code = "Char_h" THEN [app |-> back_to_main(a), quit |-> FALSE]
    ELSE [app |-> a, quit |-> FALSE]

\* The arms of match (app.screen, code), in order: the new app, and whether
\* run_app returns Ok(()).
MatchKey(a, code) ==
    IF a.screen = "Main" /\ code \in {"Char_q", "Esc"} THEN [app |-> a, quit |-> TRUE]
    ELSE IF a.screen = "Main" /\ code \in {"Down", "Char_j"} THEN [app |-> next(a), quit |-> FALSE]
    ELSE IF a.screen = "Main" /\ code \in {"Up", "Char_k"} THEN [app |-> previous(a), quit |-> FALSE]
    ELSE IF a.screen = "Main" /\ code = "Enter" THEN [app |-> open_selected(a), quit |-> FALSE]
    ELSE IF code \in {"Esc", "Char_q"} /\ a.screen # "Main" THEN [app |-> back_to_main(a), quit |-> FALSE]
    ELSE IF code = "Char_h" THEN [app |-> back_to_main(a), quit |-> FALSE]
    ELSE [app |-> a, quit |-> FALSE]

\* match event::read()? { Event::Key(..) => ..., the others => ignore }
MatchEvent(a, e) ==
    IF e.type = "Key" THEN MatchKey(a, e.code) ELSE [app |-> a, quit |-> FALSE]

-----------------------------------------------------------------------------
(* ui *)

NoFrame == [kind |-> "none"]

draw_fullscreen_page(title) ==
    [kind |-> "page", title |-> title,
     body |-> <<<<title, " Screen">>, "", "Press ESC or q to return to the main menu.",
                "", "Full-screen layout for this screen.">>]

\* The header paragraph, the menu list (the selected item bold) and the
\* footer; the banner comes from ascii_art_cached, which may fill the cache.
draw_main_menu(a, c, o) ==
    LET r == ascii_art_cached(c, DuckyKey, o) IN
    [cache |-> r.cache, invoked |-> r.invoked,
     tree |-> [kind |-> "main", header |-> r.lines,
               items |-> [i \in 1..Len(a.menu_items) |->
                            [label |-> a.menu_items[i], bold |-> (i - 1 = a.selected)]],
               footer |-> "Ducky Loaded 0 AI Features"]]

ui(a, c, o) ==
    IF a.screen = "Main" THEN draw_main_menu(a, c, o)
    ELSE [cache |-> c, invoked |-> FALSE,
          tree |-> draw_fullscreen_page(a.screen)]

-----------------------------------------------------------------------------
(* Initial states *)

Threads == 1..NumThreads
NoThread == 0

EmptyMap == [k \in {} |-> <<>>]

CacheInit ==
    /\ cache = EmptyMap
    /\ mutex = NoThread
    /\ tpc = [t \in Threads |-> "idle"]
    /\ tkey = [t \in Threads |-> DuckyKey]
    /\ tfound = [t \in Threads |-> {}]
    /\ tlines = [t \in Threads |-> <<>>]
    /\ tout = [t \in Threads |-> NoOutcome]
    /\ calls = 0
    /\ figletCalls = [k \in Keys |-> 0]
    /\ writes = [k \in Keys |-> 0]
    /\ stored = [k \in Keys |-> {}]
    /\ returned = [k \in Keys |-> {}]

\* let mut app = App::new(); and the loop is about to draw its first frame.
NavInit ==
    /\ app = App_new
    /\ pc = "draw"
    /\ res = "Running"
    /\ event = NoEvent
    /\ frame = NoFrame
    /\ frameNav = <<"none", 0>>
    /\ scen = 0

CycleIdle == start = 0 /\ steps = 0 /\ op = "none"

\* main has set the terminal up and is inside run_app.
MainInRunApp ==
    /\ mpc = "run_app"
    /\ term = [raw |-> TRUE, alt |-> TRUE, mouse |-> TRUE]
    /\ attempted = {}
    /\ exitCode = -1

Init == NavInit /\ CacheInit /\ CycleIdle /\ MainInRunApp

-----------------------------------------------------------------------------
(* run_app: the event loop, one thread *)

\* The inputs of the concrete scenario: down, down, activate, escape.
Scenario == <<Key("Down"), Key("Down"), Key("Enter"), Key("Esc")>>

\* scen = n: the events read since App::new are exactly the first n of
\* Scenario; -1: they are not a prefix of it.
ScenNext(n, e) ==
    IF n >= 0 /\ n < Len(Scenario) /\ e = Scenario[n + 1] THEN n + 1 ELSE -1

\* What a run of the ui closure leaves in the cache and its history.
UiEffects(r) ==
    /\ cache' = r.cache
    /\ figletCalls' = IF r.invoked THEN [figletCalls EXCEPT ![DuckyKey] = @ + 1] ELSE figletCalls
    /\ writes' = IF r.invoked THEN [writes EXCEPT ![DuckyKey] = @ + 1] ELSE writes
    /\ stored' = IF r.invoked THEN [stored EXCEPT ![DuckyKey] = @ \cup {r.lines}] ELSE stored

\* terminal.draw(|f| ui(f, &app))? returning Ok.
Draw ==
    /\ pc = "draw"
    /\ \E o \in FigletOutcomes :
         LET r == ui(app, cache, o) IN
         /\ UiEffects([cache |-> r.cache, invoked |-> r.invoked,
                       lines |-> IF r.invoked THEN r.tree.header ELSE <<>>])
         /\ frame' = r.tree
    /\ frameNav' = <<app.screen, app.selected>>
    /\ pc' = "poll"
    /\ UNCHANGED <<app, res, event, scen, thrVars, cycleVars, mainVars>>

\* terminal.draw(..)? returning Err, before or after the closure ran.
DrawErr ==
    /\ pc = "draw"
    /\ \E ran \in BOOLEAN, o \in FigletOutcomes :
         LET r == ui(app, cache, o) IN
         IF ran
         THEN UiEffects([cache |-> r.cache, invoked |-> r.invoked,
                         lines |-> IF r.invoked THEN r.tree.header ELSE <<>>])
         ELSE UNCHANGED <<cache, figletCalls, writes, stored>>
    /\ pc' = "done"
    /\ res' = "Err"
    /\ UNCHANGED <<app, event, frame, frameNav, scen, thrVars, cycleVars, mainVars>>

\* event::poll(200 ms)? gives false: no input, the loop draws again.
PollTimeout ==
    /\ pc = "poll"
    /\ pc' = "draw"
    /\ UNCHANGED <<app, res, event, frame, frameNav, scen, cache, figletCalls,
                   writes, stored, thrVars, cycleVars, mainVars>>

\* event::poll(200 ms)? gives true.
PollReady ==
    /\ pc = "poll"
    /\ pc' = "read"
    /\ UNCHANGED <<app, res, event, frame, frameNav, scen, cache, figletCalls,
                   writes, stored, thrVars, cycleVars, mainVars>>

PollErr ==
    /\ pc = "poll"
    /\ pc' = "done"
    /\ res' = "Err"
    /\ UNCHANGED <<app, event, frame, frameNav, scen, cache, figletCalls,
                   writes, stored, thrVars, cycleVars, mainVars>>

\* Variant of the match that goes back to polling without drawing.
ReadEvent_no_redraw ==
    /\ pc = "read"
    /\ \E e \in Events :
         LET m == MatchEvent(app, e) IN
         /\ event' = e
         /\ app' = m.app
         /\ scen' = ScenNext(scen, e)
         /\ IF m.quit THEN pc' = "done" /\ res' = "Ok"
                      ELSE pc' = "poll" /\ res' = res
    /\ UNCHANGED <<frame, frameNav, cache, figletCalls, writes, stored,
                   thrVars, cycleVars, mainVars>>

\* match event::read()? { ... } on event e.
ReadEvent ==
    /\ pc = "read"
    /\ \E e \in Events :
         LET m == MatchEvent(app, e) IN
         /\ event' = e
         /\ app' = m.app
         /\ scen' = ScenNext(scen, e)
         /\ IF m.quit THEN pc' = "done" /\ res' = "Ok"
                      ELSE pc' = "draw" /\ res' = res
    /\ UNCHANGED <<frame, frameNav, cache, figletCalls, writes, stored,
                   thrVars, cycleVars, mainVars>>

ReadErr ==
    /\ pc = "read"
    /\ pc' = "done"
    /\ res' = "Err"
    /\ event' = NoEvent
    /\ UNCHANGED <<app, frame, frameNav, scen, cache, figletCalls, writes,
                   stored, thrVars, cycleVars, mainVars>>

Next == Draw \/ DrawErr \/ PollTimeout \/ PollReady \/ PollErr \/ ReadEvent \/ ReadErr

Spec == Init /\ [][Next]_vars

-----------------------------------------------------------------------------
(* next and previous repeated, for every menu length *)

\* An App with n menu entries and any valid selection, about to apply op
\* (next or previous) n times.
CycleInit ==
    /\ \E n \in 1..MaxEntries :
         \E sel \in 0..(n - 1) :
            app = [menu_items |-> [i \in 1..n |-> "entry"], selected |-> sel,
                   screen |-> "Main"]
    /\ start = app.selected
    /\ steps = 0
    /\ op \in {"next", "previous"}
    /\ pc = "read" /\ res = "Running" /\ event = NoEvent
    /\ frame = NoFrame /\ frameNav = <<"none", 0>> /\ scen = -1
    /\ CacheInit
    /\ MainInRunApp

ApplyNext ==
    /\ op = "next"
    /\ steps < Len(app.menu_items)
    /\ app' = next(app)
    /\ steps' = steps + 1
    /\ UNCHANGED <<pc, res, event, frame, frameNav, scen, cache, figletCalls,
                   writes, stored, thrVars, mainVars, start, op>>

ApplyPrevious ==
    /\ op = "previous"
    /\ steps < Len(app.menu_items)
    /\ app' = previous(app)
    /\ steps' = steps + 1
    /\ UNCHANGED <<pc, res, event, frame, frameNav, scen, cache, figletCalls,
                   writes, stored, thrVars, mainVars, start, op>>

NextCycle == ApplyNext \/ ApplyPrevious

SpecCycle == CycleInit /\ [][NextCycle]_vars

-----------------------------------------------------------------------------
(* ascii_art_cached, step by step, called from several threads *)

\* Variant of the lock that does not wait for the holder.
CanLock_unguarded(m) == TRUE

\* Mutex::lock() returns once no thread holds the mutex.
CanLock(m) == m = NoThread

\* A thread enters ascii_art_cached(text, font, colour) with key k.
Call(t, k) ==
    /\ tpc[t] = "idle"
    /\ calls < MaxCalls
    /\ calls' = calls + 1
    /\ tkey' = [tkey EXCEPT ![t] = k]
    /\ tfound' = [tfound EXCEPT ![t] = {}]
    /\ tlines' = [tlines EXCEPT ![t] = <<>>]
    /\ tout' = [tout EXCEPT ![t] = NoOutcome]
    /\ tpc' = [tpc EXCEPT ![t] = "lock1"]
    /\ UNCHANGED <<navVars, cycleVars, mainVars, cache, mutex, figletCalls, writes,
                   stored, returned>>

\* if let Some(cached) = ASCII_CACHE.lock().unwrap() ...: the lock is taken.
Lock1(t) ==
    /\ tpc[t] = "lock1"
    /\ CanLock(mutex)
    /\ mutex' = t
    /\ tpc' = [tpc EXCEPT ![t] = "get"]
    /\ UNCHANGED <<navVars, cycleVars, mainVars, tout, cache, tkey, tfound, tlines, calls,
                   figletCalls, writes, stored, returned>>

\* ... .get(&key): the lookup, under the guard.
Get(t) ==
    /\ tpc[t] = "get"
    /\ tfound' = [tfound EXCEPT ![t] = CacheGet(cache, tkey[t])]
    /\ tpc' = [tpc EXCEPT ![t] = IF CacheGet(cache, tkey[t]) # {} THEN "hit" ELSE "miss"]
    /\ UNCHANGED <<navVars, cycleVars, mainVars, tout, cache, mutex, tkey, tlines, calls,
                   figletCalls, writes, stored, returned>>

\* return cached.clone(); the guard is dropped on the way out.
ReturnCached(t) ==
    /\ tpc[t] = "hit"
    /\ returned' = [returned EXCEPT ![tkey[t]] = @ \cup tfound[t]]
    /\ mutex' = IF mutex = t THEN NoThread ELSE mutex
    /\ tpc' = [tpc EXCEPT ![t] = "idle"]
    /\ UNCHANGED <<navVars, cycleVars, mainVars, tout, cache, tkey, tfound, tlines, calls,
                   figletCalls, writes, stored>>

\* Variant of the end of the if let that keeps the guard alive.
Unlock1_keeps_guard(t) ==
    /\ tpc[t] = "miss"
    /\ tpc' = [tpc EXCEPT ![t] = "figlet"]
    /\ UNCHANGED <<navVars, cycleVars, mainVars, cache, mutex, tkey, tfound,
                   tlines, tout, calls, figletCalls, writes, stored, returned>>

\* The if let ends without a match: the guard is dropped.
Unlock1(t) ==
    /\ tpc[t] = "miss"
    /\ mutex' = IF mutex = t THEN NoThread ELSE mutex
    /\ tpc' = [tpc EXCEPT ![t] = "figlet"]
    /\ UNCHANGED <<navVars, cycleVars, mainVars, tout, cache, tkey, tfound, tlines, calls,
                   figletCalls, writes, stored, returned>>

\* Command::new("figlet")...output() and the match on it.
Figlet(t) ==
    /\ tpc[t] = "figlet"
    /\ \E o \in FigletOutcomes :
         /\ tout' = [tout EXCEPT ![t] = o]
         /\ tlines' = [tlines EXCEPT ![t] = AsciiTable[tkey[t]][o]]
    /\ figletCalls' = [figletCalls EXCEPT ![tkey[t]] = @ + 1]
    /\ tpc' = [tpc EXCEPT ![t] = "lock2"]
    /\ UNCHANGED <<navVars, cycleVars, mainVars, cache, mutex, tkey, tfound, calls,
                   writes, stored, returned>>

\* ASCII_CACHE.lock().unwrap() of the store.
Lock2(t) ==
    /\ tpc[t] = "lock2"
    /\ CanLock(mutex)
    /\ mutex' = t
    /\ tpc' = [tpc EXCEPT ![t] = "insert"]
    /\ UNCHANGED <<navVars, cycleVars, mainVars, tout, cache, tkey, tfound, tlines, calls,
                   figletCalls, writes, stored, returned>>

\* Variant of the store that keeps only the output of a successful figlet.
Insert_skip_fallback(t) ==
    /\ tpc[t] = "insert"
    /\ cache' = IF tout[t].spawned /\ tout[t].success
                THEN CacheInsert(cache, tkey[t], tlines[t]) ELSE cache
    /\ writes' = [writes EXCEPT ![tkey[t]] = @ + 1]
    /\ stored' = [stored EXCEPT ![tkey[t]] = @ \cup {tlines[t]}]
    /\ tpc' = [tpc EXCEPT ![t] = "unlock2"]
    /\ UNCHANGED <<navVars, cycleVars, mainVars, mutex, tkey, tfound, tlines,
                   tout, calls, figletCalls, returned>>

\* ... .insert(key, ascii_lines.clone())
Insert(t) ==
    /\ tpc[t] = "insert"
    /\ cache' = CacheInsert(cache, tkey[t], tlines[t])
    /\ writes' = [writes EXCEPT ![tkey[t]] = @ + 1]
    /\ stored' = [stored EXCEPT ![tkey[t]] = @ \cup {tlines[t]}]
    /\ tpc' = [tpc EXCEPT ![t] = "unlock2"]
    /\ UNCHANGED <<navVars, cycleVars, mainVars, tout, mutex, tkey, tfound, tlines, calls,
                   figletCalls, returned>>

\* The statement ends (the guard is dropped) and ascii_lines is returned.
Return(t) ==
    /\ tpc[t] = "unlock2"
    /\ mutex' = IF mutex = t THEN NoThread ELSE mutex
    /\ returned' = [returned EXCEPT ![tkey[t]] = @ \cup {tlines[t]}]
    /\ tout' = [tout EXCEPT ![t] = NoOutcome]
    /\ tpc' = [tpc EXCEPT ![t] = "idle"]
    /\ UNCHANGED <<navVars, cycleVars, mainVars, cache, tkey, tfound, tlines, calls,
                   figletCalls, writes, stored>>

\* A call that starts only when no other call is in progress.
CallSeq(t, k) == (\A u \in Threads : tpc[u] = "idle") /\ Call(t, k)

Step(t) ==
    \/ Lock1(t) \/ Get(t) \/ ReturnCached(t) \/ Unlock1(t)
    \/ Figlet(t) \/ Lock2(t) \/ Insert(t) \/ Return(t)

\* Sequential (non-overlapping) calls.
NextSeq == \E t \in Threads : (\E k \in Keys : CallSeq(t, k)) \/ Step(t)

SpecSeq == Init /\ [][NextSeq]_vars

\* Calls from the threads in any interleaving.
NextConc == \E t \in Threads : (\E k \in Keys : Call(t, k)) \/ Step(t)

SpecConc == Init /\ [][NextConc]_vars

\* One caller, with a key drawn from RenderKeys, on an empty cache.
RenderInit ==
    /\ NavInit /\ CycleIdle /\ MainInRunApp
    /\ cache = EmptyMap
    /\ mutex = NoThread
    /\ tpc = [t \in Threads |-> "idle"]
    /\ \E k \in RenderKeys : tkey = [t \in Threads |-> k]
    /\ tfound = [t \in Threads |-> {}]
    /\ tlines = [t \in Threads |-> <<>>]
    /\ tout = [t \in Threads |-> NoOutcome]
    /\ calls = 0
    /\ figletCalls = [k \in RenderKeys |-> 0]
    /\ writes = [k \in RenderKeys |-> 0]
    /\ stored = [k \in RenderKeys |-> {}]
    /\ returned = [k \in RenderKeys |-> {}]

\* The caller calls ascii_art_cached with its key.
RenderCall == Call(1, tkey[1])

NextRender == RenderCall \/ Step(1)

SpecRender == RenderInit /\ [][NextRender]_vars

\* Concurrent calls where every thread that can take a step eventually does.
SpecConcFair == SpecConc /\ \A t \in Threads : WF_vars(Step(t))

-----------------------------------------------------------------------------
(* next and previous on an App built around any menu, the empty one included *)

\* usize is modelled UsizeBits wide.
UsizeBits == 16

\* Self { menu_items, selected: 0, screen: Screen::Main } for a menu of any
\* length: the struct is built without looking at the menu.
MenuInit ==
    /\ \E n \in 0..MaxEntries :
         app = [menu_items |-> [i \in 1..n |-> "entry"], selected |-> 0,
                screen |-> "Main"]
    /\ start = 0
    /\ steps = 0
    /\ op = "none"
    /\ pc = "read" /\ res = "Running" /\ event = NoEvent
    /\ frame = NoFrame /\ frameNav = <<"none", 0>> /\ scen = -1
    /\ CacheInit
    /\ MainInRunApp

\* app.next(): the remainder by a zero length panics.
MenuNext ==
    /\ op # "panic"
    /\ steps < 2 * MaxEntries
    /\ steps' = steps + 1
    /\ IF Len(app.menu_items) = 0
       THEN op' = "panic" /\ app' = app
       ELSE op' = "next" /\ app' = next(app)
    /\ UNCHANGED <<pc, res, event, frame, frameNav, scen, cache, figletCalls,
                   writes, stored, thrVars, mainVars, start>>

\* app.previous(): len() - 1 on a zero length overflows, which panics in a
\* build with overflow checks and wraps in a build without.
MenuPrevious ==
    /\ op # "panic"
    /\ steps < 2 * MaxEntries
    /\ steps' = steps + 1
    /\ IF app.selected = 0 /\ Len(app.menu_items) = 0
       THEN \/ op' = "panic" /\ app' = app
            \/ op' = "previous"
               /\ app' = [app EXCEPT !.selected = (0 - 1) % (2 ^ UsizeBits)]
       ELSE op' = "previous" /\ app' = previous(app)
    /\ UNCHANGED <<pc, res, event, frame, frameNav, scen, cache, figletCalls,
                   writes, stored, thrVars, mainVars, start>>

NextMenu == MenuNext \/ MenuPrevious

SpecMenu == MenuInit /\ [][NextMenu]_vars

-----------------------------------------------------------------------------
(* main: terminal setup, run_app, restore, exit *)

\* The process starts: nothing of the interactive mode is on, run_app has
\* not been called.
MainStart ==
    /\ mpc = "enable_raw"
    /\ term = [raw |-> FALSE, alt |-> FALSE, mouse |-> FALSE]
    /\ attempted = {}
    /\ exitCode = -1
    /\ app = App_new
    /\ pc = "idle"
    /\ res = "Running"
    /\ event = NoEvent
    /\ frame = NoFrame
    /\ frameNav = <<"none", 0>>
    /\ scen = 0

MainInit == MainStart /\ CacheInit /\ CycleIdle

\* A ? on an Err: main returns the error and the process exits with 1.
ReturnErr == mpc' = "exit" /\ exitCode' = 1

\* enable_raw_mode()?
EnableRaw ==
    /\ mpc = "enable_raw"
    /\ \/ term' = [term EXCEPT !.raw = TRUE] /\ mpc' = "enter_alt"
          /\ UNCHANGED exitCode
       \/ ReturnErr /\ UNCHANGED term
    /\ UNCHANGED <<navVars, cache, figletCalls, writes, stored, thrVars,
                   cycleVars, attempted>>

\* execute!(stdout, EnterAlternateScreen, EnableMouseCapture)?: the write
\* can fail before the first command or after it.
EnterAlt ==
    /\ mpc = "enter_alt"
    /\ \/ term' = [term EXCEPT !.alt = TRUE, !.mouse = TRUE]
          /\ mpc' = "new_terminal" /\ UNCHANGED exitCode
       \/ \E a \in BOOLEAN : term' = [term EXCEPT !.alt = a] /\ ReturnErr
    /\ UNCHANGED <<navVars, cache, figletCalls, writes, stored, thrVars,
                   cycleVars, attempted>>

\* Terminal::new(backend)?
NewTerminal ==
    /\ mpc = "new_terminal"
    /\ \/ mpc' = "call_run_app" /\ UNCHANGED exitCode
       \/ ReturnErr
    /\ UNCHANGED <<navVars, cache, figletCalls, writes, stored, thrVars,
                   cycleVars, term, attempted>>

\* let res = run_app(&mut terminal); run_app builds the App and loops.
CallRunApp ==
    /\ mpc = "call_run_app"
    /\ mpc' = "run_app"
    /\ app' = App_new
    /\ pc' = "draw"
    /\ UNCHANGED <<res, event, frame, frameNav, scen, cache, figletCalls,
                   writes, stored, thrVars, cycleVars, term, attempted, exitCode>>

\* run_app has returned its Result into res.
RunAppReturns ==
    /\ mpc = "run_app"
    /\ pc = "done"
    /\ mpc' = "disable_raw"
    /\ UNCHANGED <<navVars, cache, figletCalls, writes, stored, thrVars,
                   cycleVars, term, attempted, exitCode>>

\* disable_raw_mode()?
DisableRaw ==
    /\ mpc = "disable_raw"
    /\ attempted' = attempted \cup {"raw"}
    /\ \/ term' = [term EXCEPT !.raw = FALSE] /\ mpc' = "leave_alt"
          /\ UNCHANGED exitCode
       \/ ReturnErr /\ UNCHANGED term
    /\ UNCHANGED <<navVars, cache, figletCalls, writes, stored, thrVars,
                   cycleVars>>

\* execute!(terminal.backend_mut(), LeaveAlternateScreen, DisableMouseCapture)?
LeaveAlt ==
    /\ mpc = "leave_alt"
    /\ attempted' = attempted \cup {"alt", "mouse"}
    /\ \/ term' = [term EXCEPT !.alt = FALSE, !.mouse = FALSE]
          /\ mpc' = "show_cursor" /\ UNCHANGED exitCode
       \/ \E a \in BOOLEAN : term' = [term EXCEPT !.alt = a] /\ ReturnErr
    /\ UNCHANGED <<navVars, cache, figletCalls, writes, stored, thrVars,
                   cycleVars>>

\* terminal.show_cursor()?
ShowCursor ==
    /\ mpc = "show_cursor"
    /\ \/ mpc' = "result" /\ UNCHANGED exitCode
       \/ ReturnErr
    /\ UNCHANGED <<navVars, cache, figletCalls, writes, stored, thrVars,
                   cycleVars, term, attempted>>

\* if let Err(err) = res { eprintln!; std::process::exit(1) }  Ok(())
MainResult ==
    /\ mpc = "result"
    /\ mpc' = "exit"
    /\ exitCode' = IF res = "Err" THEN 1 ELSE 0
    /\ UNCHANGED <<navVars, cache, figletCalls, writes, stored, thrVars,
                   cycleVars, term, attempted>>

NextMain ==
    \/ EnableRaw \/ EnterAlt \/ NewTerminal \/ CallRunApp
    \/ Next
    \/ RunAppReturns \/ DisableRaw \/ LeaveAlt \/ ShowCursor \/ MainResult

SpecMain == MainInit /\ [][NextMain]_vars

-----------------------------------------------------------------------------
(* Properties of the event loop, checked under Spec *)

\* The sub-screen the spec maps each menu index to (index 0 first).
SubOf == <<"TodoList", "Calendar", "Obsidian", "WorkingOutPad">>

\* This step is the match of run_app handling event e.
Handled(e) == pc = "read" /\ pc' # "read" /\ event' = e

KeyQ == Key("Char_q")
KeyEsc == Key("Esc")
KeyHome == Key("Char_h")
KeyEnter == Key("Enter")

\* C1: in every reachable state selected is a valid menu index,
\* 0 <= selected < number of menu entries.
C1_SelectedValid ==
    app.selected >= 0 /\ app.selected < Len(app.menu_items)

\* Down was handled on the last entry and wrapped to the first.
C1_Witness == event = Key("Down") /\ app.selected = 0 /\ app.screen = "Main" /\ pc = "draw"

\* C2: Enter handled on Main with selected = i makes the screen the i-th
\* mapped sub-screen, which is not Main, and leaves selected unchanged.
C2_ConfirmOpensSelected ==
    [][(Handled(KeyEnter) /\ app.screen = "Main")
        => /\ app'.screen = SubOf[app.selected + 1]
           /\ app'.screen # "Main"
           /\ app'.selected = app.selected]_vars

\* Enter was handled with the last entry selected.
C2_Witness ==
    event = KeyEnter /\ app.screen = "WorkingOutPad" /\ app.selected = 3 /\ pc = "draw"

\* C3: on a sub-screen (entered by activating index i = selected), Esc, q
\* and h set the screen to Main, keep selected = i and do not end the loop;
\* and after exactly [down, down, activate] the state is Obsidian with
\* selected = 2, after a following [escape] it is Main with selected = 2.
C3_ReturnKeepsSelection ==
    /\ [][(app.screen # "Main" /\ (Handled(KeyEsc) \/ Handled(KeyQ) \/ Handled(KeyHome)))
           => /\ app.screen = SubOf[app.selected + 1]
              /\ app'.screen = "Main"
              /\ app'.selected = app.selected
              /\ pc' = "draw" /\ res' = "Running"]_vars
    /\ [](scen = 3 => app.screen = "Obsidian" /\ app.selected = 2)
    /\ [](scen = 4 => app.screen = "Main" /\ app.selected = 2)

\* The four inputs of the scenario have been handled.
C3_Witness == scen = 4 /\ event = KeyEsc /\ pc = "draw"

\* C5: run_app returns Ok exactly in the step that handles q or Esc while
\* the screen is Main.
C5_QuitOnlyFromMain ==
    [][(res # "Ok" /\ res' = "Ok")
        <=> (app.screen = "Main" /\ (Handled(KeyQ) \/ Handled(KeyEsc)))]_vars

\* The loop has ended with Ok after Esc.
C5_Witness == res = "Ok" /\ pc = "done" /\ event = KeyEsc

\* The inputs that are no recognized transition on screen s.
Ignored(s, e) ==
    /\ e \in Events
    /\ \/ e.type # "Key"
       \/ e.code \in {"Char_x", "Tab"}
       \/ s # "Main" /\ e.code \in {"Down", "Up", "Char_j", "Char_k", "Enter"}

\* C6: handling an input that is no recognized transition (mouse, resize,
\* focus, paste, an unrecognized key, or a navigation or confirm key on a
\* sub-screen) changes neither screen nor selected, and the loop goes on.
C6_IgnoredInputs ==
    [][(pc = "read" /\ pc' # "read" /\ Ignored(app.screen, event'))
        => app' = app /\ pc' = "draw" /\ res' = res]_vars

\* A navigation key was handled on a sub-screen.
C6_Witness == event = Key("Char_j") /\ app.screen = "Obsidian" /\ pc = "draw"

\* This step ran the ui closure (inside terminal.draw).
UiReturned == pc = "draw" /\ pc' = "poll"

\* C10 as stated: a ui call changes neither the navigation state nor any
\* other program state, the banner cache included, and drawing the same
\* NavigationState again gives the same tree.
C10_UiHasNoSideEffects ==
    [][UiReturned
        => /\ app' = app
           /\ cache' = cache
           /\ figletCalls' = figletCalls
           /\ (frameNav = <<app.screen, app.selected>> => frame' = frame)]_vars

\* C10 amended: a ui call never changes the navigation state, and drawing
\* the same NavigationState again gives the same tree; the only state it
\* changes is the banner cache: a call on Main that finds the Ducky key
\* absent renders the banner and stores it under that key, and every other
\* call leaves the cache as it is.
C10_UiOnlyFillsCache ==
    [][UiReturned
        => /\ app' = app
           /\ (frameNav = <<app.screen, app.selected>> => frame' = frame)
           /\ IF app.screen = "Main" /\ DuckyKey \notin DOMAIN cache
              THEN /\ DOMAIN cache' = DOMAIN cache \cup {DuckyKey}
                   /\ cache'[DuckyKey] = frame'.header
                   /\ \A k \in DOMAIN cache : cache'[k] = cache[k]
                   /\ figletCalls'[DuckyKey] = figletCalls[DuckyKey] + 1
              ELSE cache' = cache /\ figletCalls' = figletCalls]_vars

\* Main was drawn again after an input that left the state as it was.
C10_Witness ==
    /\ pc = "poll" /\ event = Other("Resize") /\ frame.kind = "main"
    /\ frameNav = <<"Main", 0>> /\ DuckyKey \in DOMAIN cache

-----------------------------------------------------------------------------
(* Properties of next and previous, checked under SpecCycle *)

\* C4: one next sets selected to (selected + 1) mod entry_count, one
\* previous to (selected - 1 + entry_count) mod entry_count; and after
\* entry_count applications of either, selected is back where it started.
C4_CyclicSelection ==
    /\ [][steps' = steps + 1
           => /\ op = "next" => app'.selected = (app.selected + 1) % Len(app.menu_items)
              /\ op = "previous" =>
                   app'.selected = (app.selected - 1 + Len(app.menu_items)) % Len(app.menu_items)]_vars
    /\ [](steps = Len(app.menu_items) => app.selected = start)

\* previous was applied three times to a three-entry menu.
C4_Witness ==
    op = "previous" /\ Len(app.menu_items) = 3 /\ steps = 3 /\ start = 1

-----------------------------------------------------------------------------
(* Properties of the cache *)

\* C7 (under SpecSeq): with sequential calls, all calls with one key return
\* the same lines, and figlet is invoked at most once per key.
C7_SequentialMemo ==
    \A k \in Keys : figletCalls[k] <= 1 /\ Cardinality(returned[k]) <= 1

\* A call finds the entry an earlier, returned call with its key stored.
C7_Witness ==
    \E t \in Threads :
        tpc[t] = "hit" /\ returned[tkey[t]] # {} /\ figletCalls[tkey[t]] = 1

\* C8 (under SpecConc): under any interleaving each key is written at most
\* once, and its entry never changes once it is there.
C8_WriteOncePerKey ==
    \A k \in Keys : writes[k] <= 1 /\ Cardinality(stored[k]) <= 1

\* Thread t has looked its key up and missed, and has not yet inserted it.
BetweenMissAndInsert(t) == tpc[t] \in {"miss", "figlet", "lock2", "insert"}

\* This step is a cache access (the lookup or the insert) of thread u.
CacheAccess(u) ==
    \/ tpc[u] = "get" /\ tpc'[u] # "get"
    \/ tpc[u] = "insert" /\ tpc'[u] # "insert"

\* C9 as stated (under SpecConc): no other call's lookup or insert happens
\* between a call's missed lookup and that call's insertion.
C9_OneCriticalSection ==
    [][\A t \in Threads : \A u \in Threads \ {t} :
          BetweenMissAndInsert(t) => ~CacheAccess(u)]_vars

\* Thread t is inside one of its critical sections.
InCriticalSection(t) == tpc[t] \in {"get", "hit", "miss", "insert", "unlock2"}

\* C9 amended (under SpecConc): the lookup and the insertion are two
\* critical sections, each holding the mutex for that access alone: a
\* thread at its lookup or its insert holds the mutex, so no two threads
\* are there at once, and between its missed lookup and its insert (while
\* figlet runs and while it waits for the second lock) it does not hold it.
C9_TwoCriticalSections ==
    /\ \A t \in Threads : InCriticalSection(t) => mutex = t
    /\ \A t \in Threads : tpc[t] \in {"figlet", "lock2"} => mutex # t
    /\ \A t \in Threads : \A u \in Threads \ {t} :
          ~(InCriticalSection(t) /\ InCriticalSection(u))

\* A thread that missed is waiting to insert, and meanwhile another call
\* has stored its key.
C9_Witness ==
    \E t \in Threads : tpc[t] = "lock2" /\ tkey[t] \in DOMAIN cache

-----------------------------------------------------------------------------
(* Further properties of the event loop, checked under Spec *)

\* C15: in the event loop figlet is invoked at most once in the whole run,
\* and only by the draw of the first frame, which is of Main and precedes
\* every input; drawing a sub-screen touches neither figlet nor the cache.
C15_BannerOnceOnFirstFrame ==
    /\ [](\A k \in Keys : figletCalls[k] <= 1)
    /\ [][figletCalls' # figletCalls
           => /\ pc = "draw" /\ app.screen = "Main"
              /\ frame = NoFrame /\ event = NoEvent
              /\ figletCalls'[DuckyKey] = 1]_vars
    /\ [][(pc = "draw" /\ app.screen # "Main")
           => cache' = cache /\ figletCalls' = figletCalls /\ writes' = writes]_vars

\* A sub-screen has been drawn after the banner was rendered once.
C15_Witness ==
    pc = "poll" /\ frame.kind = "page" /\ figletCalls[DuckyKey] = 1

\* C16: the screen is never Configuration, and Enter on Main always finds
\* selected in 0..3, so the (4 -> Configuration) and fall-through arms of
\* open_selected are never taken.
C16_ConfigurationUnreachable ==
    /\ [](app.screen # "Configuration")
    /\ [][(Handled(KeyEnter) /\ app.screen = "Main")
           => app.selected \in 0..3 /\ app'.screen # "Main"]_vars

\* Enter was handled with the last menu entry selected after wrapping up.
C16_Witness ==
    event = KeyEnter /\ app.selected = 3 /\ app.screen = "WorkingOutPad" /\ pc = "poll"

\* C19: an iteration draws and then polls and handles at most one event;
\* a draw changes no navigation state and a handled event no frame; when an
\* event is about to be read the current state has been drawn; a poll that
\* times out changes nothing and leads to a draw.
C19_DrawThenPoll ==
    /\ []((pc = "poll" \/ pc = "read")
            => frame # NoFrame /\ frameNav = <<app.screen, app.selected>>)
    /\ [][(pc = "draw" /\ pc' # "draw") => app' = app /\ pc' \in {"poll", "done"}]_vars
    /\ [][(pc = "read" /\ pc' # "read")
           => frame' = frame /\ cache' = cache /\ pc' \in {"draw", "done"}]_vars
    /\ [][(pc = "poll" /\ pc' = "draw")
           => app' = app /\ cache' = cache /\ frame' = frame /\ res' = res]_vars

\* The selection moved by Down has been drawn and the next event is due.
C19_Witness ==
    pc = "read" /\ event = Key("Down") /\ app.selected = 1 /\ frameNav = <<"Main", 1>>

-----------------------------------------------------------------------------
(* Further properties of the cache *)

\* The fallback lines of key k.
FallbackOf(k) == FallbackLines(k[1], k[3])

\* The figlet of thread t's call failed (no spawn, or a non-zero exit).
FigletFailed(t) == tout[t] # NoOutcome /\ ~(tout[t].spawned /\ tout[t].success)

\* C17 (under SpecSeq): a call whose figlet failed stores the fallback under
\* its key; and while a key's entry is the fallback, figlet has run once for
\* it and every call with it has returned, or is about to return, the
\* fallback, whatever figlet would give now.
C17_FallbackIsCached ==
    /\ \A t \in Threads :
          (tpc[t] = "unlock2" /\ FigletFailed(t))
            => tkey[t] \in DOMAIN cache /\ cache[tkey[t]] = FallbackOf(tkey[t])
    /\ \A k \in DOMAIN cache :
          cache[k] = FallbackOf(k)
            => /\ figletCalls[k] = 1
               /\ returned[k] \subseteq {FallbackOf(k)}
               /\ \A t \in Threads :
                     (tpc[t] = "hit" /\ tkey[t] = k) => tfound[t] = {FallbackOf(k)}

\* A later call found the fallback an earlier call had stored and returned.
C17_Witness ==
    \E t \in Threads :
        /\ tpc[t] = "hit" /\ tfound[t] = {FallbackOf(tkey[t])}
        /\ returned[tkey[t]] = {FallbackOf(tkey[t])}

\* C18 (under SpecConcFair): a thread running figlet, or waiting for the
\* lock, does not hold the mutex; while a call is in progress some thread
\* can step; and every call in progress eventually returns.
C18_NoDeadlock ==
    /\ [](\A t \in Threads : tpc[t] \in {"figlet", "lock1", "lock2"} => mutex # t)
    /\ []((\E t \in Threads : tpc[t] # "idle") => ENABLED (\E t \in Threads : Step(t)))
    /\ \A t \in Threads : (tpc[t] # "idle") ~> (tpc[t] = "idle")

\* One thread runs figlet while another is inside its insert.
C18_Witness ==
    \E t \in Threads : \E u \in Threads \ {t} :
        tpc[t] = "figlet" /\ tpc[u] = "insert" /\ mutex = u /\ tkey[t] = tkey[u]

-----------------------------------------------------------------------------
(* Properties of one render, checked under SpecRender *)

\* The call of thread 1 has matched the outcome of figlet and not yet returned.
Rendered == tpc[1] \in {"lock2", "insert", "unlock2"}

\* The number of lines of s: its line feeds, and an unterminated rest.
NumLines(s) ==
    Cardinality({i \in 1..Len(s) : s[i] = "LF"})
    + (IF s # <<>> /\ s[Len(s)] # "LF" THEN 1 ELSE 0)

\* The top and bottom border for text x: "+", len(x) + 2 dashes, "+".
Border(x) == <<"+">> \o [i \in 1..(StrLen(x) + 2) |-> "-"] \o <<"+">>

\* C11: when figlet fails the render gives exactly three lines, each in the
\* requested colour: the border, "| " text " |", and the border again.
C11_FallbackIsThreeLineBox ==
    (Rendered /\ FigletFailed(1))
      => LET x == tkey[1][1]  ls == tlines[1] IN
         /\ Len(ls) = 3
         /\ ls[1].text = Border(x)
         /\ ls[2].text = <<"|", " ">> \o x \o <<" ", "|">>
         /\ ls[3].text = Border(x)
         /\ \A i \in 1..3 : ls[i].fg = tkey[1][3]

\* C12: whatever figlet does the render gives styled lines in the requested
\* colour; after a successful figlet, one per line of its output; after a
\* failed spawn or an unsuccessful exit, the fallback for the text.
C12_RenderNeverFails ==
    /\ \A o \in FigletOutcomes :
          \A i \in 1..Len(AsciiTable[tkey[1]][o]) :
              AsciiTable[tkey[1]][o][i].fg = tkey[1][3]
    /\ Rendered
         => LET o == tout[1]  ls == tlines[1] IN
            /\ o \in FigletOutcomes
            /\ \A i \in 1..Len(ls) :
                  /\ ls[i].fg = tkey[1][3]
                  /\ \A j \in 1..Len(ls[i].text) : ls[i].text[j] # "LF"
            /\ (o.spawned /\ o.success) => Len(ls) = NumLines(o.stdout)
            /\ FigletFailed(1) => ls = FallbackLines(tkey[1][1], tkey[1][3])

\* A figlet that ran and exited unsuccessfully gave the fallback.
C12_Witness ==
    /\ tpc[1] = "unlock2" /\ tout[1].spawned /\ ~tout[1].success
    /\ tlines[1] = FallbackLines(tkey[1][1], tkey[1][3])
    /\ Len(tkey[1][1]) = MaxTextLen

-----------------------------------------------------------------------------
(* Properties of main, checked under SpecMain *)

\* Some part of the interactive mode has been switched on during the run.
InteractiveEntered == term.raw \/ term.alt \/ term.mouse \/ attempted # {}

\* C13: when the process exits after the interactive mode was entered, even
\* partly, main has attempted to disable raw mode, to leave the alternate
\* screen and to disable mouse capture; the exit code is 0 after a clean
\* quit and non-zero after an error.
C13_RestoreOnEveryExit ==
    mpc = "exit"
      => /\ InteractiveEntered => {"raw", "alt", "mouse"} \subseteq attempted
         /\ exitCode \in {0, 1}
         /\ res = "Err" => exitCode = 1
         /\ exitCode = 0 => res = "Ok"

-----------------------------------------------------------------------------
(* Properties of next and previous on any menu, checked under SpecMenu *)

====
